---- MODULE Spec2Model ----
(***************************************************************************)
(* A model of src/email_parser.py: the thread segmenter                    *)
(* (split_email_thread), the charset resolver (_decode_payload), the       *)
(* mojibake correction of parse_msg_file, the attachment writer            *)
(* (save_attachments) and the batch driver (process_email_folder).         *)
(*                                                                         *)
(* Each component has its own specification (SpecSplit, SpecDecode,        *)
(* SpecMojibake, SpecSave, SpecBatch) over the shared variable pc; the     *)
(* variables of the other components stay at their idle values.            *)
(***************************************************************************)
EXTENDS Integers, Sequences, FiniteSets, TLC

VARIABLES
    pc,            \* position of the component under check
    body,          \* split_email_thread: parsed_email['body'], a token string
    attachments,   \* split_email_thread: parsed_email['attachments']
    messages,      \* split_email_thread: the returned list
    payload,       \* _decode_payload: the bytes
    charset,       \* _decode_payload: the declared charset, or None
    detector,      \* what "import chardet; chardet.detect(payload)" yields
    decoded,       \* _decode_payload: the outcome (a string or an exception)
    body_html,     \* parse_msg_file: msg.htmlBody, a string
    html_out,      \* parse_msg_file: result['body_html'], or the exception
    output_dir,    \* save_attachments: the file names present in output_dir
    dir0,          \* save_attachments: output_dir as it was at the call
    to_save,       \* save_attachments: the attachments argument (file names)
    att_idx,       \* save_attachments: index of the attachment of the for loop
    filename,      \* save_attachments: the local filename (filepath is
                   \*   os.path.join(output_dir, filename))
    base_ext,      \* save_attachments: the local pair base, ext
    counter,       \* save_attachments: the local counter
    written,       \* every open(filepath, 'wb') made, in order
    folder,        \* process_email_folder: the files folder.glob('*') yields
    file_idx,      \* process_email_folder: index of the file of the for loop
    attempted,     \* indexes of the files handed to process_email
    reported,      \* indexes of the files whose error was printed
    propagated     \* the exception that left process_email_folder, or "none"

splitVars == <<body, attachments, messages>>
decodeVars == <<payload, charset, detector, decoded>>
htmlVars == <<body_html, html_out>>
saveVars ==
    <<output_dir, dir0, to_save, att_idx, filename, base_ext, counter, written>>
batchVars == <<folder, file_idx, attempted, reported, propagated>>

vars == <<pc, splitVars, decodeVars, htmlVars, saveVars, batchVars>>

(***************************************************************************)
(* Bounds of the model.                                                    *)
(***************************************************************************)
MaxBodyLen == 6
MaxPayloadLen == 3
MaxHtmlLen == 3
MaxAttachments == 2
MaxFiles == 3

(***************************************************************************)
(* Generic helpers.                                                        *)
(***************************************************************************)
SeqsUpTo(S, n) == UNION {[1..k -> S] : k \in 0..n}

IsPrefix(p, s) == Len(p) <= Len(s) /\ SubSeq(s, 1, Len(p)) = p

(***************************************************************************)
(* split_email_thread (lines 204-241).                                     *)
(*                                                                         *)
(* A body is a string of tokens.  "NL" is the newline character, "a" a     *)
(* letter, and the long literal runs of the separators are one token each: *)
(* "HR" the 32 underscores, "OM" the text -----Original Message-----,      *)
(* "FROM" the text From: and "ON" the text On of the reply marker; "SP" is  *)
(* the space character.                                                    *)
(***************************************************************************)
BodyTokens == {"NL", "SP", "a", "HR", "OM", "FROM", "ON"}

Whitespace == {"NL", "SP"}

separators ==
    << <<"NL", "HR", "NL">>,
       <<"NL", "OM", "NL">>,
       <<"NL", "FROM">>,
       <<"NL", "NL", "ON", "SP">> >>

\* str.split(sep): cut at the leftmost non-overlapping occurrences of sep
RECURSIVE SplitAcc(_, _, _)
SplitAcc(s, sep, cur) ==
    IF s = <<>> THEN <<cur>>
    ELSE IF IsPrefix(sep, s)
         THEN <<cur>> \o SplitAcc(SubSeq(s, Len(sep) + 1, Len(s)), sep, <<>>)
         ELSE SplitAcc(Tail(s), sep, Append(cur, Head(s)))

StrSplit(s, sep) == SplitAcc(s, sep, <<>>)

\* lines 223-226: new_parts.extend(part.split(sep)) for every part
RECURSIVE SplitParts(_, _)
SplitParts(parts, sep) ==
    IF parts = <<>> THEN <<>>
    ELSE StrSplit(Head(parts), sep) \o SplitParts(Tail(parts), sep)

\* lines 221-226: the separators applied in order, starting from [body]
RECURSIVE ApplySeparators(_, _)
ApplySeparators(parts, seps) ==
    IF seps = <<>> THEN parts
    ELSE ApplySeparators(SplitParts(parts, Head(seps)), Tail(seps))

\* str.strip(): leading and trailing whitespace removed
RECURSIVE LStrip(_)
LStrip(s) ==
    IF s # <<>> /\ Head(s) \in Whitespace THEN LStrip(Tail(s)) ELSE s

RECURSIVE RStrip(_)
RStrip(s) ==
    IF s # <<>> /\ s[Len(s)] \in Whitespace
    THEN RStrip(SubSeq(s, 1, Len(s) - 1)) ELSE s

Strip(s) == RStrip(LStrip(s))

\* line 241: [parsed_email] is the input dictionary, which has no
\* 'thread_index' key; NoThreadIndex stands for the absent key
NoThreadIndex == -1

ParsedEmail(b, atts) ==
    [body |-> b, thread_index |-> NoThreadIndex, attachments |-> atts]

\* lines 229-239: one message per part that is not blank; idx is the
\* enumerate() index, the position among all parts
RECURSIVE CreateMessages(_, _, _)
CreateMessages(parts, idx, atts) ==
    IF parts = <<>> THEN <<>>
    ELSE IF Strip(Head(parts)) # <<>>
         THEN << [body |-> Strip(Head(parts)),
                  thread_index |-> idx,
                  attachments |-> IF idx = 0 THEN atts ELSE <<>>] >>
              \o CreateMessages(Tail(parts), idx + 1, atts)
         ELSE CreateMessages(Tail(parts), idx + 1, atts)

split_email_thread(b, atts) ==
    LET parts == ApplySeparators(<<b>>, separators)
        msgs  == CreateMessages(parts, 0, atts)
    IN  IF Len(msgs) > 1 THEN msgs ELSE <<ParsedEmail(b, atts)>>


(***************************************************************************)
(* bytes.decode (lines 111, 121, 131, 136): the codecs of the interpreter. *)
(* A byte is a number in 0..255, a string a sequence of code points.       *)
(***************************************************************************)
\* the code points of the bytes 0x80..0xFF; -1 where the codec has none
Cp1251High ==
    <<1026, 1027, 8218, 1107, 8222, 8230, 8224, 8225,
       8364, 8240, 1033, 8249, 1034, 1036, 1035, 1039,
       1106, 8216, 8217, 8220, 8221, 8226, 8211, 8212,
       -1, 8482, 1113, 8250, 1114, 1116, 1115, 1119,
       160, 1038, 1118, 1032, 164, 1168, 166, 167,
       1025, 169, 1028, 171, 172, 173, 174, 1031,
       176, 177, 1030, 1110, 1169, 181, 182, 183,
       1105, 8470, 1108, 187, 1112, 1029, 1109, 1111,
       1040, 1041, 1042, 1043, 1044, 1045, 1046, 1047,
       1048, 1049, 1050, 1051, 1052, 1053, 1054, 1055,
       1056, 1057, 1058, 1059, 1060, 1061, 1062, 1063,
       1064, 1065, 1066, 1067, 1068, 1069, 1070, 1071,
       1072, 1073, 1074, 1075, 1076, 1077, 1078, 1079,
       1080, 1081, 1082, 1083, 1084, 1085, 1086, 1087,
       1088, 1089, 1090, 1091, 1092, 1093, 1094, 1095,
       1096, 1097, 1098, 1099, 1100, 1101, 1102, 1103 >>

Koi8rHigh ==
    <<9472, 9474, 9484, 9488, 9492, 9496, 9500, 9508,
       9516, 9524, 9532, 9600, 9604, 9608, 9612, 9616,
       9617, 9618, 9619, 8992, 9632, 8729, 8730, 8776,
       8804, 8805, 160, 8993, 176, 178, 183, 247,
       9552, 9553, 9554, 1105, 9555, 9556, 9557, 9558,
       9559, 9560, 9561, 9562, 9563, 9564, 9565, 9566,
       9567, 9568, 9569, 1025, 9570, 9571, 9572, 9573,
       9574, 9575, 9576, 9577, 9578, 9579, 9580, 169,
       1102, 1072, 1073, 1094, 1076, 1077, 1092, 1075,
       1093, 1080, 1081, 1082, 1083, 1084, 1085, 1086,
       1087, 1103, 1088, 1089, 1090, 1091, 1078, 1074,
       1100, 1099, 1079, 1096, 1101, 1097, 1095, 1098,
       1070, 1040, 1041, 1062, 1044, 1045, 1060, 1043,
       1061, 1048, 1049, 1050, 1051, 1052, 1053, 1054,
       1055, 1071, 1056, 1057, 1058, 1059, 1046, 1042,
       1068, 1067, 1047, 1064, 1069, 1065, 1063, 1066 >>

Iso88595High ==
    <<128, 129, 130, 131, 132, 133, 134, 135,
       136, 137, 138, 139, 140, 141, 142, 143,
       144, 145, 146, 147, 148, 149, 150, 151,
       152, 153, 154, 155, 156, 157, 158, 159,
       160, 1025, 1026, 1027, 1028, 1029, 1030, 1031,
       1032, 1033, 1034, 1035, 1036, 173, 1038, 1039,
       1040, 1041, 1042, 1043, 1044, 1045, 1046, 1047,
       1048, 1049, 1050, 1051, 1052, 1053, 1054, 1055,
       1056, 1057, 1058, 1059, 1060, 1061, 1062, 1063,
       1064, 1065, 1066, 1067, 1068, 1069, 1070, 1071,
       1072, 1073, 1074, 1075, 1076, 1077, 1078, 1079,
       1080, 1081, 1082, 1083, 1084, 1085, 1086, 1087,
       1088, 1089, 1090, 1091, 1092, 1093, 1094, 1095,
       1096, 1097, 1098, 1099, 1100, 1101, 1102, 1103,
       8470, 1105, 1106, 1107, 1108, 1109, 1110, 1111,
       1112, 1113, 1114, 1115, 1116, 167, 1118, 1119 >>


\* codecs.lookup: the codec a charset name stands for ("unknown": no such
\* codec, a LookupError)
Codec(name) ==
    CASE name \in {"utf-8"} -> "utf_8"
      [] name \in {"cp1251", "windows-1251"} -> "cp1251"
      [] name \in {"koi8-r", "KOI8-R"} -> "koi8_r"
      [] name \in {"iso-8859-5"} -> "iso8859_5"
      [] name \in {"latin-1", "ISO-8859-1"} -> "latin_1"
      [] name \in {"ascii"} -> "ascii"
      [] name \in {"undefined"} -> "undefined"
      [] OTHER -> "unknown"

Decoded(text) == [error |-> "none", text |-> text]
Raised(err) == [error |-> err, text |-> <<>>]

IsCont(b) == b >= 128 /\ b <= 191

\* one step of the UTF-8 decoder at the head of s: ok, the bytes taken (or,
\* on an error, the bytes an error handler skips) and the code point
Utf8Step(s) ==
    LET b0 == s[1]
        b1ok(lo, hi) == Len(s) >= 2 /\ s[2] >= lo /\ s[2] <= hi
        bad(n) == [ok |-> FALSE, n |-> n, cp |-> 0]
    IN  IF b0 < 128 THEN [ok |-> TRUE, n |-> 1, cp |-> b0]
        ELSE IF b0 >= 194 /\ b0 <= 223 THEN
            IF b1ok(128, 191)
            THEN [ok |-> TRUE, n |-> 2, cp |-> (b0 % 32) * 64 + (s[2] % 64)]
            ELSE bad(1)
        ELSE IF b0 >= 224 /\ b0 <= 239 THEN
            IF ~b1ok(IF b0 = 224 THEN 160 ELSE 128,
                     IF b0 = 237 THEN 159 ELSE 191) THEN bad(1)
            ELSE IF ~(Len(s) >= 3 /\ IsCont(s[3])) THEN bad(2)
            ELSE [ok |-> TRUE, n |-> 3,
                  cp |-> (b0 % 16) * 4096 + (s[2] % 64) * 64 + (s[3] % 64)]
        ELSE IF b0 >= 240 /\ b0 <= 244 THEN
            IF ~b1ok(IF b0 = 240 THEN 144 ELSE 128,
                     IF b0 = 244 THEN 143 ELSE 191) THEN bad(1)
            ELSE IF ~(Len(s) >= 3 /\ IsCont(s[3])) THEN bad(2)
            ELSE IF ~(Len(s) >= 4 /\ IsCont(s[4])) THEN bad(3)
            ELSE [ok |-> TRUE, n |-> 4,
                  cp |-> (b0 % 8) * 262144 + (s[2] % 64) * 4096
                         + (s[3] % 64) * 64 + (s[4] % 64)]
        ELSE bad(1)

\* payload.decode('utf-8', errors): strict fails at the first bad byte,
\* ignore drops the bad bytes
RECURSIVE Utf8Decode(_, _)
Utf8Decode(s, errors) ==
    IF s = <<>> THEN Decoded(<<>>)
    ELSE LET st   == Utf8Step(s)
             rest == Utf8Decode(SubSeq(s, st.n + 1, Len(s)), errors)
         IN  IF st.ok
             THEN IF rest.error = "none"
                  THEN Decoded(<<st.cp>> \o rest.text) ELSE rest
             ELSE IF errors = "ignore" THEN rest
             ELSE Raised("UnicodeDecodeError")

\* a charmap codec: ASCII as itself, the high half by its table
RECURSIVE CharmapDecode(_, _)
CharmapDecode(s, high) ==
    IF s = <<>> THEN Decoded(<<>>)
    ELSE LET cp   == IF s[1] < 128 THEN s[1] ELSE high[s[1] - 127]
             rest == CharmapDecode(Tail(s), high)
         IN  IF cp < 0 THEN Raised("UnicodeDecodeError")
             ELSE IF rest.error = "none"
                  THEN Decoded(<<cp>> \o rest.text) ELSE rest

Latin1High == [i \in 1..128 |-> 127 + i]
AsciiHigh == [i \in 1..128 |-> -1]

\* payload.decode(name): the string, or the exception the codec raises
BytesDecode(s, name) ==
    CASE Codec(name) = "utf_8" -> Utf8Decode(s, "strict")
      [] Codec(name) = "cp1251" -> CharmapDecode(s, Cp1251High)
      [] Codec(name) = "koi8_r" -> CharmapDecode(s, Koi8rHigh)
      [] Codec(name) = "iso8859_5" -> CharmapDecode(s, Iso88595High)
      [] Codec(name) = "latin_1" -> CharmapDecode(s, Latin1High)
      [] Codec(name) = "ascii" -> CharmapDecode(s, AsciiHigh)
      [] Codec(name) = "undefined" -> Raised("UnicodeError")
      [] OTHER -> Raised("LookupError")

(***************************************************************************)
(* _decode_payload (lines 103-136).                                        *)
(***************************************************************************)
None == "None"

\* lines 112, 122, 132: except (UnicodeDecodeError, LookupError)
CaughtErrors == {"UnicodeDecodeError", "LookupError"}

\* KOI8-R tried before the CP1251 family
CommonEncodingsKoiFirst ==
    <<"utf-8", "koi8-r", "cp1251", "windows-1251", "iso-8859-5", "latin-1">>

\* line 129
CommonEncodings ==
    <<"utf-8", "cp1251", "windows-1251", "koi8-r", "iso-8859-5", "latin-1">>

\* line 119: detected['confidence'] > 0.7, in hundredths
ConfidenceThreshold == 70

\* lines 129-136: the first encoding that decodes; then the last resort
RECURSIVE TryEncodings(_, _)
TryEncodings(s, encs) ==
    IF encs = <<>> THEN Utf8Decode(s, "ignore")
    ELSE LET r == BytesDecode(s, Head(encs))
         IN  IF r.error = "none" \/ r.error \notin CaughtErrors THEN r
             ELSE TryEncodings(s, Tail(encs))

\* lines 116-125: the detector, when chardet can be imported
DetectorYields(det) ==
    /\ det.available
    /\ det.encoding # None
    /\ det.confidence > ConfidenceThreshold

FromDetection(s, det) ==
    IF DetectorYields(det)
    THEN LET r == BytesDecode(s, det.encoding)
         IN  IF r.error = "none" \/ r.error \notin CaughtErrors THEN r
             ELSE TryEncodings(s, CommonEncodings)
    ELSE TryEncodings(s, CommonEncodings)

\* "if charset:" (line 109): None and the empty string are both false
CharsetGiven(cs) == cs # None /\ cs # ""

_decode_payload(s, cs, det) ==
    IF s = <<>> THEN Decoded(<<>>)
    ELSE IF CharsetGiven(cs)
         THEN LET r == BytesDecode(s, cs)
              IN  IF r.error = "none" \/ r.error \notin CaughtErrors THEN r
                  ELSE FromDetection(s, det)
         ELSE FromDetection(s, det)

(***************************************************************************)
(* parse_msg_file, the body_html of a string htmlBody (lines 69-87).       *)
(***************************************************************************)
\* line 78: body_html[:100] and ord(c) > 1000
HeadLen == 100
CodePointThreshold == 1000

\* line 78: the characters U+00D0 and U+00D1
MojibakeMarks == {208, 209}

Range(s) == {s[i] : i \in DOMAIN s}

LooksGarbled(text) ==
    \/ \E i \in DOMAIN text : i <= HeadLen /\ text[i] > CodePointThreshold
    \/ Range(text) \cap MojibakeMarks # {}

\* str.encode('latin-1', errors='replace'): '?' for what has no byte
Latin1EncodeReplace(text) ==
    [error |-> "none",
     bytes |-> [i \in DOMAIN text |-> IF text[i] <= 255 THEN text[i] ELSE 63]]

\* line 82: body_html.encode('latin-1')
Latin1Encode(text) ==
    IF \A i \in DOMAIN text : text[i] <= 255
    THEN [error |-> "none", bytes |-> text]
    ELSE [error |-> "UnicodeEncodeError", bytes |-> <<>>]

\* lines 81-85: try ... except: pass, which catches every exception
Redecode(text, det) ==
    LET enc == Latin1Encode(text)
        dec == _decode_payload(enc.bytes, None, det)
    IN  IF enc.error # "none" THEN Decoded(text)
        ELSE IF dec.error # "none" THEN Decoded(text)
        ELSE dec

\* lines 72-87
FixBodyHtml(text, det) ==
    IF LooksGarbled(text) THEN Redecode(text, det) ELSE Decoded(text)

(***************************************************************************)
(* save_attachments (lines 244-261).  A file name is a sequence of         *)
(* characters without a path separator.                                    *)
(***************************************************************************)
\* os.path.splitext: the extension starts at the last dot, unless only dots
\* come before it
LastDot(name) ==
    LET dots == {i \in DOMAIN name : name[i] = "."}
    IN  IF dots = {} THEN 0 ELSE CHOOSE i \in dots : \A j \in dots : j <= i

SplitExt(name) ==
    LET d == LastDot(name)
    IN  IF d > 0 /\ \E i \in 1..(d - 1) : name[i] # "."
        THEN <<SubSeq(name, 1, d - 1), SubSeq(name, d, Len(name))>>
        ELSE <<name, <<>> >>

DigitChar == <<"0", "1", "2", "3", "4", "5", "6", "7", "8", "9">>

\* str(counter)
RECURSIVE Str(_)
Str(n) ==
    IF n < 10 THEN <<DigitChar[n + 1]>>
    ELSE Str(n \div 10) \o <<DigitChar[(n % 10) + 1]>>

\* line 256: f"{base}_{counter}{ext}"
Suffixed(be, n) == be[1] \o <<"_">> \o Str(n) \o be[2]

\* an if in place of the while: one retry only
PathExistsOnce == filename \in output_dir /\ counter = 1

\* line 255: os.path.exists(filepath)
PathExists == filename \in output_dir

\* lines 248-254: the next attachment of the for loop
SaveBegin ==
    /\ pc = "save_for"
    /\ att_idx <= Len(to_save)
    /\ filename' = to_save[att_idx]
    /\ counter' = 1
    /\ base_ext' = SplitExt(to_save[att_idx])
    /\ pc' = "save_while"
    /\ UNCHANGED <<output_dir, dir0, to_save, att_idx, written>>
    /\ UNCHANGED <<splitVars, decodeVars, htmlVars, batchVars>>

\* lines 256-258: one turn of the while loop
SaveRetry ==
    /\ pc = "save_while"
    /\ PathExists
    /\ filename' = Suffixed(base_ext, counter)
    /\ counter' = counter + 1
    /\ UNCHANGED <<pc, output_dir, dir0, to_save, att_idx, base_ext, written>>
    /\ UNCHANGED <<splitVars, decodeVars, htmlVars, batchVars>>

\* lines 260-261: the file is opened for writing, which creates or truncates
SaveWrite ==
    /\ pc = "save_while"
    /\ ~PathExists
    /\ written' = Append(written, [requested |-> to_save[att_idx],
                                   path |-> filename,
                                   before |-> output_dir])
    /\ output_dir' = output_dir \cup {filename}
    /\ att_idx' = att_idx + 1
    /\ pc' = "save_for"
    /\ UNCHANGED <<dir0, to_save, filename, base_ext, counter>>
    /\ UNCHANGED <<splitVars, decodeVars, htmlVars, batchVars>>

\* the for loop is exhausted: save_attachments returns
SaveReturn ==
    /\ pc = "save_for"
    /\ att_idx > Len(to_save)
    /\ pc' = "save_done"
    /\ UNCHANGED saveVars
    /\ UNCHANGED <<splitVars, decodeVars, htmlVars, batchVars>>

(***************************************************************************)
(* process_email_folder (lines 298-308).  A file of the folder is its      *)
(* suffix and the stage of process_email that fails on it, if any.         *)
(***************************************************************************)
\* Path.suffix.lower()
Lower(suffix) ==
    CASE suffix = ".MSG" -> ".msg"
      [] suffix = ".EML" -> ".eml"
      [] OTHER -> suffix

\* line 303
EmailSuffixes == {".msg", ".eml"}

\* process_email (lines 264-295): the exception it ends with, or "none"
ProcessEmail(file) ==
    CASE file.fault = "parse" -> "UnicodeError"
      [] file.fault = "segment" -> "KeyError"
      [] file.fault = "save" -> "OSError"
      [] OTHER -> "none"

\* the classes derived from Exception among those above
ExceptionClasses == {"ValueError", "UnicodeError", "KeyError", "OSError"}

\* a handler for ValueError only
CaughtValueErrorOnly(e) == e = "ValueError"

\* line 307: except Exception
CaughtByBatch(e) == e \in ExceptionClasses

\* lines 302-308: one turn of the for loop
BatchFile ==
    /\ pc = "batch"
    /\ file_idx <= Len(folder)
    /\ LET file == folder[file_idx]
           exc  == ProcessEmail(file)
       IN  IF Lower(file.suffix) \in EmailSuffixes
           THEN /\ attempted' = attempted \cup {file_idx}
                /\ IF exc = "none"
                   THEN UNCHANGED <<reported, propagated, pc>>
                   ELSE IF CaughtByBatch(exc)
                        THEN /\ reported' = reported \cup {file_idx}
                             /\ UNCHANGED <<propagated, pc>>
                        ELSE /\ propagated' = exc
                             /\ pc' = "batch_raised"
                             /\ UNCHANGED reported
           ELSE UNCHANGED <<attempted, reported, propagated, pc>>
    /\ file_idx' = file_idx + 1
    /\ UNCHANGED folder
    /\ UNCHANGED <<splitVars, decodeVars, htmlVars, saveVars>>

\* the for loop is exhausted: process_email_folder returns
BatchReturn ==
    /\ pc = "batch"
    /\ file_idx > Len(folder)
    /\ pc' = "batch_done"
    /\ UNCHANGED batchVars
    /\ UNCHANGED <<splitVars, decodeVars, htmlVars, saveVars>>

(***************************************************************************)
(* The specifications: each draws the inputs of one component and applies  *)
(* it.                                                                     *)
(***************************************************************************)
IdleSplit == body = <<>> /\ attachments = <<>> /\ messages = <<>>

NoDetector == [available |-> FALSE, encoding |-> None, confidence |-> 0]

IdleDecode ==
    /\ payload = <<>>
    /\ charset = None
    /\ detector = NoDetector
    /\ decoded = Decoded(<<>>)

IdleHtml == body_html = <<>> /\ html_out = Decoded(<<>>)

IdleSave ==
    /\ output_dir = {}
    /\ dir0 = {}
    /\ to_save = <<>>
    /\ att_idx = 1
    /\ filename = <<>>
    /\ base_ext = << <<>>, <<>> >>
    /\ counter = 1
    /\ written = <<>>

IdleBatch ==
    /\ folder = <<>>
    /\ file_idx = 1
    /\ attempted = {}
    /\ reported = {}
    /\ propagated = "none"

AttachmentLists == {<<>>, <<"A">>, <<"A", "B">>}

InitSplit ==
    /\ pc = "split"
    /\ body \in SeqsUpTo(BodyTokens, MaxBodyLen)
    /\ attachments \in AttachmentLists
    /\ messages = <<>>
    /\ IdleDecode /\ IdleHtml /\ IdleSave /\ IdleBatch

SplitThread ==
    /\ pc = "split"
    /\ messages' = split_email_thread(body, attachments)
    /\ pc' = "split_done"
    /\ UNCHANGED <<body, attachments, decodeVars, htmlVars, saveVars, batchVars>>

NextSplit == SplitThread

SpecSplit == InitSplit /\ [][NextSplit]_vars

\* 'a'; 0xD0 0xB8 is UTF-8 for U+0438 and CP1251 for U+0420 U+0451; 0x98 has
\* no CP1251 character; 0xCF is CP1251 for U+041F
PayloadBytes == {97, 208, 184, 152, 207}

Charsets == {None, "", "utf-8", "cp1251", "ascii", "undefined", "x-unknown"}

\* chardet missing (ImportError), no guess, or a guess with its confidence
Detectors ==
    {NoDetector, [available |-> TRUE, encoding |-> None, confidence |-> 0]}
    \cup [available : {TRUE},
          encoding : {"utf-8", "windows-1251", "KOI8-R", "ISO-8859-1", "EUC-TW"},
          confidence : {70, 73}]

InitDecode ==
    /\ pc = "decode"
    /\ payload \in SeqsUpTo(PayloadBytes, MaxPayloadLen)
    /\ charset \in Charsets
    /\ detector \in Detectors
    /\ decoded = Decoded(<<>>)
    /\ IdleSplit /\ IdleHtml /\ IdleSave /\ IdleBatch

DecodePayload ==
    /\ pc = "decode"
    /\ decoded' = _decode_payload(payload, charset, detector)
    /\ pc' = "decode_done"
    /\ UNCHANGED <<payload, charset, detector>>
    /\ UNCHANGED <<splitVars, htmlVars, saveVars, batchVars>>

NextDecode == DecodePayload

SpecDecode == InitDecode /\ [][NextDecode]_vars

\* 'A', U+00D0, U+00B8, U+00D1, U+012C (beyond Latin-1, below the
\* threshold) and U+041F (beyond the threshold)
HtmlChars == {65, 208, 184, 209, 300, 1055}

InitMojibake ==
    /\ pc = "html"
    /\ body_html \in SeqsUpTo(HtmlChars, MaxHtmlLen)
    /\ detector \in Detectors
    /\ html_out = Decoded(<<>>)
    /\ payload = <<>> /\ charset = None /\ decoded = Decoded(<<>>)
    /\ IdleSplit /\ IdleSave /\ IdleBatch

FixMojibake ==
    /\ pc = "html"
    /\ html_out' = FixBodyHtml(body_html, detector)
    /\ pc' = "html_done"
    /\ UNCHANGED <<body_html, splitVars, decodeVars, saveVars, batchVars>>

NextMojibake == FixMojibake

SpecMojibake == InitMojibake /\ [][NextMojibake]_vars

\* report.pdf, report_1.pdf, report_2.pdf, report_1_1.pdf, report,
\* report_1 and .pdf, shortened
DirNames ==
    { <<"r", ".", "p">>, <<"r", "_", "1", ".", "p">>,
      <<"r", "_", "2", ".", "p">>, <<"r", "_", "1", "_", "1", ".", "p">>,
      <<"r">>, <<"r", "_", "1">>, <<".", "p">> }

AttachmentNames ==
    { <<"r", ".", "p">>, <<"r", "_", "1", ".", "p">>, <<"r">>, <<".", "p">> }

InitSave ==
    /\ pc = "save_for"
    /\ output_dir \in SUBSET DirNames
    /\ dir0 = output_dir
    /\ to_save \in SeqsUpTo(AttachmentNames, MaxAttachments)
    /\ att_idx = 1
    /\ filename = <<>>
    /\ base_ext = << <<>>, <<>> >>
    /\ counter = 1
    /\ written = <<>>
    /\ IdleSplit /\ IdleDecode /\ IdleHtml /\ IdleBatch

NextSave == SaveBegin \/ SaveRetry \/ SaveWrite \/ SaveReturn

SpecSave == InitSave /\ [][NextSave]_vars

Files == [suffix : {".msg", ".EML", ".txt"},
          fault : {"none", "parse", "segment", "save"}]

InitBatch ==
    /\ pc = "batch"
    /\ folder \in SeqsUpTo(Files, MaxFiles)
    /\ file_idx = 1
    /\ attempted = {}
    /\ reported = {}
    /\ propagated = "none"
    /\ IdleSplit /\ IdleDecode /\ IdleHtml /\ IdleSave

NextBatch == BatchFile \/ BatchReturn

SpecBatch == InitBatch /\ [][NextBatch]_vars

(***************************************************************************)
(* The claims about split_email_thread, under SpecSplit.                   *)
(***************************************************************************)
RootSegments == {i \in DOMAIN messages : messages[i].thread_index = 0}

\* C1: the returned sequence holds exactly one segment whose thread index
\* is 0, that segment carries all the original attachments, and every other
\* segment carries none.
C1_RootSegmentOwnsAttachments ==
    pc = "split_done" =>
        /\ Cardinality(RootSegments) = 1
        /\ \A i \in DOMAIN messages :
              messages[i].attachments =
                  IF i \in RootSegments THEN attachments ELSE <<>>

RECURSIVE TotalAttachments(_)
TotalAttachments(msgs) ==
    IF msgs = <<>> THEN 0
    ELSE Len(Head(msgs).attachments) + TotalAttachments(Tail(msgs))

\* C2: for a non-empty attachment list, the attachments summed over the
\* returned segments are as many as the attachments of the input email.
C2_AttachmentsConserved ==
    (pc = "split_done" /\ attachments # <<>>) =>
        TotalAttachments(messages) = Len(attachments)

HasSeparator(b) ==
    \E k \in DOMAIN separators : \E i \in 1..Len(b) :
        IsPrefix(separators[k], SubSeq(b, i, Len(b)))

\* C4: a body with none of the four separators gives exactly one segment,
\* with the input body, thread index 0 and the original attachments.
C4_SeparatorFreeIsOneRootSegment ==
    (pc = "split_done" /\ ~HasSeparator(body)) =>
        messages = << [body |-> body, thread_index |-> 0,
                       attachments |-> attachments] >>

\* C9: a result of n > 1 segments carries the thread indices 0, 1, ..., n-1
\* in order, the positions among the surviving fragments.
C9_IndicesCountSurvivors ==
    (pc = "split_done" /\ Len(messages) > 1) =>
        \A i \in DOMAIN messages : messages[i].thread_index = i - 1

(***************************************************************************)
(* The claims about _decode_payload, under SpecDecode.                     *)
(***************************************************************************)
\* C3: _decode_payload returns a string and raises nothing, for every
\* payload, declared charset and detector; the empty payload gives the
\* empty string.
C3_DecodeIsTotal ==
    pc = "decode_done" =>
        /\ decoded.error = "none"
        /\ payload = <<>> => decoded.text = <<>>

DeclaredFails ==
    ~CharsetGiven(charset) \/ BytesDecode(payload, charset).error # "none"

\* C5: a payload that is valid UTF-8, with the declared charset absent or
\* failing, is returned as its UTF-8 decoding whatever the detector reports.
C5_ValidUtf8DecodesAsUtf8 ==
    (/\ pc = "decode_done"
     /\ Utf8Decode(payload, "strict").error = "none"
     /\ DeclaredFails) =>
        decoded = Utf8Decode(payload, "strict")

\* the Cyrillic block, U+0400 to U+04FF
IsCyrillic(cp) == cp >= 1024 /\ cp <= 1279

\* the payload is the CP1251 encoding of a Cyrillic text
IsCp1251Cyrillic(s) ==
    LET r == CharmapDecode(s, Cp1251High)
    IN  r.error = "none" /\ \A i \in DOMAIN r.text : IsCyrillic(r.text[i])

Cp1251Case ==
    pc = "decode_done" /\ IsCp1251Cyrillic(payload) /\ charset = "utf-8"

\* C6 as stated: the CP1251 encoding of a Cyrillic text, declared "utf-8",
\* is returned as its CP1251 decoding.
C6_Cp1251AlwaysRecovered ==
    Cp1251Case => decoded = CharmapDecode(payload, Cp1251High)

DetectedDecoding == BytesDecode(payload, detector.encoding)

\* C6 as amended: the CP1251 encoding of a Cyrillic text, declared "utf-8",
\* is returned as its CP1251 decoding when it is not valid UTF-8 and the
\* detector gives no encoding that decodes it (it is missing, names none,
\* has confidence at most 0.7, or names an encoding the decode fails with);
\* a payload that is valid UTF-8 is returned as its UTF-8 decoding, and one
\* that a detected encoding decodes as its decoding under that encoding.
\* Nothing is raised.
C6_Cp1251RecoveredUnlessAmbiguous ==
    Cp1251Case =>
        /\ decoded.error = "none"
        /\ decoded.text =
              IF Utf8Decode(payload, "strict").error = "none"
              THEN Utf8Decode(payload, "strict").text
              ELSE IF DetectorYields(detector) /\ DetectedDecoding.error = "none"
                   THEN DetectedDecoding.text
                   ELSE CharmapDecode(payload, Cp1251High).text

\* the falling through of C6: UTF-8 fails, no detection, CP1251 decodes
C6_Witness ==
    /\ Cp1251Case
    /\ payload = <<207, 208>>
    /\ ~DetectorYields(detector)
    /\ decoded = Decoded(<<1055, 1056>>)

(***************************************************************************)
(* The claim about the mojibake correction, under SpecMojibake.            *)
(***************************************************************************)
BeyondLatin1(text) == \E i \in DOMAIN text : text[i] > 255

\* C10: when the heuristic triggers and the text holds a code point beyond
\* Latin-1 (as it does whenever a code point above 1000 triggers it), the
\* re-encoding fails and the text is returned unchanged, with no error.
C10_FailedReencodeKeepsText ==
    pc = "html_done" =>
        /\ (LooksGarbled(body_html) /\ BeyondLatin1(body_html)) =>
              html_out = Decoded(body_html)
        /\ (\E i \in DOMAIN body_html :
               i <= HeadLen /\ body_html[i] > CodePointThreshold) =>
              BeyondLatin1(body_html)

\* the heuristic triggers on U+00D0 and the re-encoding fails on U+012C
C10_Witness ==
    /\ pc = "html_done"
    /\ body_html = <<208, 184, 300>>
    /\ DetectorYields(detector)
    /\ html_out = Decoded(body_html)

(***************************************************************************)
(* The claim about save_attachments, under SpecSave.                       *)
(***************************************************************************)
\* the name itself if it is free, else base_k+ext for the smallest free k
FirstFreePath(requested, before) ==
    IF requested \notin before THEN requested
    ELSE LET be == SplitExt(requested)
             k  == CHOOSE n \in 1..(Cardinality(before) + 1) :
                      /\ Suffixed(be, n) \notin before
                      /\ \A j \in 1..(n - 1) : Suffixed(be, j) \in before
         IN  Suffixed(be, k)

\* C7: no file is written over a path that exists; each attachment goes to
\* its own name if free, else to base_k+ext for the smallest k >= 1 that is
\* free; the retry loop ends (counter never passes the number of files by
\* more than one, and the call is never stuck); and the directory gains
\* exactly one file per attachment.
C7_SaveNeverOverwrites ==
    /\ \A i \in DOMAIN written :
          /\ written[i].path \notin written[i].before
          /\ written[i].path =
                FirstFreePath(written[i].requested, written[i].before)
    /\ pc = "save_while" => counter <= Cardinality(output_dir) + 1
    /\ pc # "save_done" => ENABLED NextSave
    /\ pc = "save_done" =>
          /\ Len(written) = Len(to_save)
          /\ dir0 \subseteq output_dir
          /\ Cardinality(output_dir) = Cardinality(dir0) + Len(to_save)

\* two report.pdf, with report_1.pdf already there: the second goes to
\* report_2.pdf
C7_Witness ==
    /\ pc = "save_done"
    /\ dir0 = { <<"r", "_", "1", ".", "p">> }
    /\ to_save = << <<"r", ".", "p">>, <<"r", ".", "p">> >>
    /\ written[1].path = <<"r", ".", "p">>
    /\ written[2].path = <<"r", "_", "2", ".", "p">>

(***************************************************************************)
(* The claim about process_email_folder, under SpecBatch.                  *)
(***************************************************************************)
EmailFiles ==
    {i \in DOMAIN folder : folder[i].suffix \in {".msg", ".MSG", ".eml", ".EML"}}

\* C8: a failure on one .msg/.eml file is reported and skipped: every other
\* .msg/.eml file of the folder is still attempted and the failure does not
\* leave process_email_folder.
C8_FailureDoesNotAbortBatch ==
    /\ propagated = "none"
    /\ pc \in {"batch", "batch_done"}
    /\ pc # "batch_done" => ENABLED NextBatch
    /\ pc = "batch_done" =>
          /\ attempted = EmailFiles
          /\ reported = {i \in EmailFiles : folder[i].fault # "none"}

\* a file fails in parsing and the files after it are attempted all the same
C8_Witness ==
    /\ pc = "batch_done"
    /\ Len(folder) = 3
    /\ folder[1] = [suffix |-> ".msg", fault |-> "parse"]
    /\ folder[2] = [suffix |-> ".EML", fault |-> "save"]
    /\ folder[3] = [suffix |-> ".msg", fault |-> "none"]
    /\ attempted = {1, 2, 3}
    /\ reported = {1, 2}

====
